---- MODULE Spec2Model ----
(***************************************************************************)
(* Relayer backend (src/backend/index.js) and the account factory          *)
(* contracts (src/contracts/contracts/aa/AccountFactory.sol,               *)
(* MinimalAccount).  Every HTTP request is a sequence of steps, one per    *)
(* await of the handler; steps of concurrent requests interleave.          *)
(***************************************************************************)
EXTENDS Integers, Sequences, FiniteSets, TLC

\* ------------------------------------------------------------- bounds
\* number of HTTP requests handled in one behaviour
MaxReq == 2

Reqs == 1..MaxReq

\* number of requests handled when all the AA endpoints are served together
MaxApiReq == 1

ApiReqs == 1..MaxApiReq

\* number of guarded queries of one debug request that the node fails
MaxFail == 1

\* type(uint256).max, the width scaled down: the largest amount, supply and
\* allowance, and the allowance that means unlimited
MaxUint == 3

\* user identifiers a caller may send (besides the missing one, "")
Users == {"alice", "bob"}

\* ------------------------------------------------------------ state
VARIABLES
    READS,      \* [READ_RPC_1, READ_RPC_2].filter(Boolean): the read endpoints
    env,        \* the names of process.env that are set
    accounts,   \* chain: contract address -> storage (domain = code present)
    events,     \* chain: the AccountDeployed events emitted, in order; for the
                \* token, what its events add up to per minter
    txs,        \* the transaction(s) of each request, if it sent any
    included,   \* chain: the requests whose transaction was included, in block
                \* order; for the token, the latest included call
    req         \* the HTTP requests: parameters, position, locals, response

vars == <<READS, env, accounts, events, txs, included, req>>

\* -------------------------------------------------------- addresses
ZeroAddress == "0x0"
RelayerAddr == "relayer"
\* owner= query values of POST /api/aa/deploy ("" = parameter absent)
OwnerArgs == {"", "0xowner", ZeroAddress}

FactoryAddr == <<"factory">>
\* process.env.ENTRYPOINT, process.env.BUNDLER_URL
EntryPointAddr == <<"entrypoint">>
BundlerUrl == "bundler"
\* process.env.REWARD_TOKEN, process.env.PAYMASTER
TokenAddr == <<"token">>
PaymasterAddr == <<"paymaster">>
NoAddr == <<>>

\* AccountFactory.implementation (immutable, set by the constructor)
implementation == <<"implementation">>

\* keccak256(abi.encodePacked(userId))
keccak256(userId) == <<"keccak", userId>>

\* Clones.predictDeterministicAddress(implementation, salt, deployer)
predictDeterministicAddress(impl, salt, deployer) == <<"clone", impl, salt, deployer>>

\* AccountFactory.getAddress(string userId)
getAddressMutSalt(userId) ==
    IF predictDeterministicAddress(implementation, keccak256(userId), FactoryAddr) \in DOMAIN accounts
    THEN predictDeterministicAddress(implementation, <<"keccak", "deployed", userId>>, FactoryAddr)
    ELSE predictDeterministicAddress(implementation, keccak256(userId), FactoryAddr)

getAddress(userId) ==
    LET salt == keccak256(userId)
    IN  predictDeterministicAddress(implementation, salt, FactoryAddr)

\* ------------------------------------------------------ the contracts
\* MinimalAccount storage right after cloneDeterministic
FreshClone == [owner |-> ZeroAddress, initialized |-> FALSE]

\* MinimalAccount.initialize(_owner): the new storage, or a revert
initialize(acct, owner) ==
    IF acct.initialized THEN [ok |-> FALSE, acct |-> acct]
    ELSE IF owner = ZeroAddress THEN [ok |-> FALSE, acct |-> acct]
    ELSE [ok |-> TRUE, acct |-> [owner |-> owner, initialized |-> TRUE]]

\* AccountFactory.createAccount(userId, owner) run on the chain state
\* accts (account address -> storage; its domain = addresses with code).
\* A revert rolls the whole transaction back.
createAccountMutRedeploy(accts, userId, owner) ==
    LET account == predictDeterministicAddress(implementation, keccak256(userId), FactoryAddr)
    IN  IF account \notin DOMAIN accts
        THEN [ok |-> TRUE, accts |-> accts @@ (account :> [owner |-> owner, initialized |-> TRUE]),
              emitted |-> <<[account |-> account, salt |-> keccak256(userId), owner |-> owner]>>,
              ret |-> account]
        ELSE [ok |-> TRUE, accts |-> [a \in DOMAIN accts \ {account} |-> accts[a]],
              emitted |-> <<>>, ret |-> account]

createAccountMutNoGuard(accts, userId, owner) ==
    LET account == predictDeterministicAddress(implementation, keccak256(userId), FactoryAddr)
        init == initialize(FreshClone, owner)
    IN  IF init.ok
        THEN [ok |-> TRUE, accts |-> (account :> init.acct) @@ accts,
              emitted |-> <<[account |-> account, salt |-> keccak256(userId), owner |-> owner]>>,
              ret |-> account]
        ELSE [ok |-> FALSE, accts |-> accts, emitted |-> <<>>, ret |-> NoAddr]

createAccount(accts, userId, owner) ==
    LET salt == keccak256(userId)
        account == predictDeterministicAddress(implementation, salt, FactoryAddr)
    IN  IF account \notin DOMAIN accts
        THEN LET init == initialize(FreshClone, owner)
             IN  IF init.ok
                 THEN [ok |-> TRUE, accts |-> accts @@ (account :> init.acct),
                       emitted |-> <<[account |-> account, salt |-> salt, owner |-> owner]>>,
                       ret |-> account]
                 ELSE [ok |-> FALSE, accts |-> accts, emitted |-> <<>>, ret |-> NoAddr]
        ELSE [ok |-> TRUE, accts |-> accts, emitted |-> <<>>, ret |-> account]

\* provider.getCode(addr): "0x" is the empty-bytecode marker
getCode(accts, addr) ==
    IF addr \in {FactoryAddr, EntryPointAddr} \/ addr \in DOMAIN accts THEN "0xcode" ELSE "0x"

\* code && code !== '0x'
hasCode(code) == code # "" /\ code # "0x"


\* ------------------------------------------------------ configuration
EnvNames == {"AA_FACTORY", "REWARD_TOKEN", "PAYMASTER", "BUNDLER_URL", "ENTRYPOINT"}

\* READ_RPC_1 / READ_RPC_2 each set or not, filtered in this order
ReadsChoices == {<<>>, <<"rpc1">>, <<"rpc2">>, <<"rpc1", "rpc2">>}

\* ------------------------------------------------- ABI and eth_call
NoData == <<>>
NoErr == [url |-> "", msg |-> ""]

\* Interface.encodeFunctionData(signature, args): selector, then the arguments
encodeFunctionData(sig, args) == <<sig>> \o args

\* parseUnits(amountStr, 18): the amount's decimal digits followed by that
\* many zeros
parseUnits(amountStr, decimals) == [digits |-> amountStr, zeros |-> decimals]

\* the ABI encoding of one returned address
encodeResult(addr) == <<"abi", addr>>

\* Interface.decodeFunctionResult(...)[0] for a `returns (address)` function;
\* malformed or empty return data throws
decodeFunctionResult(out) ==
    IF Len(out) = 2 /\ out[1] = "abi"
    THEN [ok |-> TRUE, val |-> out[2]]
    ELSE [ok |-> FALSE, val |-> NoAddr]

\* eth_call {to, data} at "latest" against the factory: the view functions
\* getAddress(string) and implementation(); anything else reverts
ethCall(to, data) ==
    IF to = FactoryAddr /\ Len(data) = 2 /\ data[1] = "getAddress(string)"
    THEN [ok |-> TRUE, data |-> encodeResult(getAddress(data[2]))]
    ELSE IF to = FactoryAddr /\ Len(data) = 1 /\ data[1] = "implementation()"
    THEN [ok |-> TRUE, data |-> encodeResult(implementation)]
    ELSE [ok |-> FALSE, data |-> NoData]

\* What one read endpoint may answer to an eth_call: the call's result, a
\* JSON-RPC error object, or nothing within the 8 s of the abort timer.
ReplyKinds == {"result", "error", "timeout"}

\* The other answers an endpoint can give: return data too short to decode
\* ("0x"), a null result, an error object without a message, a body that is
\* not JSON (a gateway's error page).
OddReplyKinds == {"short", "falsy", "nomessage", "notjson"}

\* {} : the object with no field
EmptyObj == [f \in {} |-> ""]

ShortData == <<"0x">>

\* the HTTP response to the POST: whether it arrived, its status, whether the
\* body parses as JSON, and the parsed body
httpReply(kind, to, data) ==
    IF kind = "timeout"
    THEN [arrived |-> FALSE, status |-> 0, json |-> FALSE, obj |-> EmptyObj]
    ELSE IF kind = "notjson"
    THEN [arrived |-> TRUE, status |-> 502, json |-> FALSE, obj |-> EmptyObj]
    ELSE IF kind = "nomessage"
    THEN [arrived |-> TRUE, status |-> 429, json |-> TRUE, obj |-> [error |-> [code |-> "-32005"]]]
    ELSE IF kind = "short"
    THEN [arrived |-> TRUE, status |-> 200, json |-> TRUE, obj |-> [result |-> ShortData]]
    ELSE IF kind = "falsy"
    THEN [arrived |-> TRUE, status |-> 200, json |-> TRUE, obj |-> [result |-> NoData]]
    ELSE IF kind = "result" /\ ethCall(to, data).ok
    THEN [arrived |-> TRUE, status |-> 200, json |-> TRUE,
          obj |-> [result |-> ethCall(to, data).data]]
    ELSE [arrived |-> TRUE, status |-> 200, json |-> TRUE,
          obj |-> [error |-> [message |-> "execution reverted"]]]

\* `rpc error ${r.status}`
rpcErrorText(status) ==
    CASE status = 200 -> "rpc error 200"
      [] status = 429 -> "rpc error 429"
      [] status = 502 -> "rpc error 502"
      [] OTHER -> "rpc error"

\* rpcFetch(url, method, params): one POST under an abort timer; the parsed
\* body's result when it is defined, else a throw.  posts: the requests made.
rpcFetchMutTruthy(url, reply) ==
    IF ~reply.arrived
    THEN [ok |-> FALSE, val |-> NoData, err |-> [url |-> url, msg |-> "AbortError"], posts |-> <<url>>]
    ELSE LET j == IF reply.json THEN reply.obj ELSE EmptyObj
         IN  IF "result" \in DOMAIN j /\ j.result # NoData
             THEN [ok |-> TRUE, val |-> j.result, err |-> NoErr, posts |-> <<url>>]
             ELSE [ok |-> FALSE, val |-> NoData, posts |-> <<url>>,
                   err |-> [url |-> url, msg |-> rpcErrorText(reply.status)]]

rpcFetch(url, reply) ==
    IF ~reply.arrived
    THEN [ok |-> FALSE, val |-> NoData, err |-> [url |-> url, msg |-> "AbortError"], posts |-> <<url>>]
    ELSE LET j == IF reply.json THEN reply.obj ELSE EmptyObj
         IN  IF "result" \in DOMAIN j
             THEN [ok |-> TRUE, val |-> j.result, err |-> NoErr, posts |-> <<url>>]
             ELSE LET message == IF "error" \in DOMAIN j /\ "message" \in DOMAIN j.error
                                 THEN j.error.message ELSE ""
                  IN  [ok |-> FALSE, val |-> NoData, posts |-> <<url>>,
                       err |-> [url |-> url,
                                msg |-> IF message # "" THEN message
                                        ELSE rpcErrorText(reply.status)]]

\* ------------------------------------------------------- the requests
NoCall == [attempts |-> <<>>, threw |-> FALSE, val |-> NoData, err |-> NoErr]
NoTx == [state |-> "none", user |-> "", owner |-> "", ret |-> NoAddr]
NoFetch == [called |-> FALSE]

Idle == [kind |-> "", user |-> "", ownerArg |-> "", to |-> "", stub |-> "",
         codeAtStart |-> FALSE, userOp |-> [built |-> FALSE],
         pc |-> "idle", owner |-> "", predicted |-> NoAddr, code |-> "",
         codeAfter |-> "", smartAccount |-> NoAddr,
         rpcIdx |-> 0, lastErr |-> NoErr, attempts |-> <<>>, lastCall |-> NoCall,
         calls |-> 0, log |-> <<>>, status |-> 0, body |-> [pending |-> TRUE],
         fetch |-> NoFetch, posts |-> <<>>, queries |-> <<>>,
         amount |-> 0, allowance |-> 0]

\* the account address of a user identifier, as the factory derives it
AccountOf(userId) == predictDeterministicAddress(implementation, keccak256(userId), FactoryAddr)

\* a request as it arrives: its parameters, and whether the user's account
\* has code at that moment (kept to tell the calls made before a deployment
\* from those made after it)
Arrive(kind, user, ownerArg, to, stub) ==
    [Idle EXCEPT !.kind = kind, !.user = user, !.ownerArg = ownerArg, !.to = to,
                 !.stub = stub, !.codeAtStart = AccountOf(user) \in DOMAIN accounts]

\* res.status(status).json(body)
Respond(rec, status, body) ==
    [rec EXCEPT !.pc = "done", !.status = status, !.body = body]

Logged(rec, what) == [rec EXCEPT !.log = Append(@, what)]

\* rpc(method, params), one round of `for (const url of READS)`: the await of
\* rpcFetch(READS[rpcIdx]) resolves with `reply`.  done: rpc returned or threw.
rpcMutFirstErr(rec, reply) ==
    LET url == READS[rec.rpcIdx]
        out == rpcFetch(url, reply)
        att == Append(rec.attempts, [url |-> url, ok |-> out.ok, val |-> out.val, err |-> out.err])
        lastErr == IF rec.lastErr = NoErr THEN out.err ELSE rec.lastErr
    IN  IF out.ok
        THEN [done |-> TRUE, attempts |-> att, threw |-> FALSE, val |-> out.val, err |-> NoErr]
        ELSE IF rec.rpcIdx < Len(READS)
        THEN [done |-> FALSE, attempts |-> att, threw |-> FALSE, val |-> NoData, err |-> lastErr]
        ELSE [done |-> TRUE, attempts |-> att, threw |-> TRUE, val |-> NoData, err |-> lastErr]

rpcMutNoReturn(rec, reply) ==
    LET url == READS[rec.rpcIdx]
        out == rpcFetch(url, reply)
        att == Append(rec.attempts, [url |-> url, ok |-> out.ok, val |-> out.val, err |-> out.err])
    IN  IF rec.rpcIdx < Len(READS)
        THEN [done |-> FALSE, attempts |-> att, threw |-> FALSE, val |-> NoData,
              err |-> IF out.ok THEN rec.lastErr ELSE out.err]
        ELSE IF out.ok
        THEN [done |-> TRUE, attempts |-> att, threw |-> FALSE, val |-> out.val, err |-> NoErr]
        ELSE [done |-> TRUE, attempts |-> att, threw |-> TRUE, val |-> NoData, err |-> out.err]

rpc(rec, reply) ==
    LET url == READS[rec.rpcIdx]
        out == rpcFetch(url, reply)
        att == Append(rec.attempts, [url |-> url, ok |-> out.ok, val |-> out.val, err |-> out.err])
        lastErr == out.err
    IN  IF out.ok
        THEN [done |-> TRUE, attempts |-> att, threw |-> FALSE, val |-> out.val, err |-> NoErr]
        ELSE IF rec.rpcIdx < Len(READS)
        THEN [done |-> FALSE, attempts |-> att, threw |-> FALSE, val |-> NoData, err |-> lastErr]
        ELSE [done |-> TRUE, attempts |-> att, threw |-> TRUE, val |-> NoData, err |-> lastErr]

\* rpc() with nothing to iterate: throw lastErr || new Error("all RPCs failed")
rpcEmptyMutNoDefault ==
    [attempts |-> <<>>, threw |-> TRUE, val |-> NoData, err |-> NoErr]

rpcEmpty ==
    [attempts |-> <<>>, threw |-> TRUE, val |-> NoData,
     err |-> [url |-> "", msg |-> "all RPCs failed"]]

CallOf(r) == [attempts |-> r.attempts, threw |-> r.threw, val |-> r.val, err |-> r.err]

\* ---------------------------------------------- GET /api/aa/address
\* after the implementation() read returned or threw: the response
AddressAfterImplMutFatal(rec, call) ==
    LET dec == IF call.threw THEN [ok |-> FALSE, val |-> NoAddr]
               ELSE decodeFunctionResult(call.val)
        rec2 == [rec EXCEPT !.lastCall = call, !.calls = @ + 1]
    IN  IF rec.smartAccount = NoAddr \/ ~dec.ok
        THEN Respond(rec2, 500,
                 [error |-> "Factory reverted for both signatures (string/bytes32). Check ABI or AA_FACTORY.",
                  factory |-> FactoryAddr])
        ELSE Respond(rec2, 200,
                 [userId |-> rec.user, factory |-> FactoryAddr,
                  implementation |-> dec.val, smartAccount |-> rec.smartAccount])

AddressAfterImpl(rec, call) ==
    LET dec == IF call.threw THEN [ok |-> FALSE, val |-> NoAddr]
               ELSE decodeFunctionResult(call.val)
        impl == IF dec.ok THEN dec.val ELSE NoAddr
        rec2 == [rec EXCEPT !.lastCall = call, !.calls = @ + 1]
    IN  IF rec.smartAccount = NoAddr
        THEN Respond(rec2, 500,
                 [error |-> "Factory reverted for both signatures (string/bytes32). Check ABI or AA_FACTORY.",
                  factory |-> FactoryAddr])
        ELSE Respond(rec2, 200,
                 [userId |-> rec.user, factory |-> FactoryAddr,
                  implementation |-> impl, smartAccount |-> rec.smartAccount])

\* after safeCall of getAddress(string) returned: decode, then either the
\* bytes32 branch (keccak256 and toUtf8Bytes are not imported: a
\* ReferenceError, caught by the handler's catch) or the implementation() read
AddressAfterPrimaryMutSkipDead(rec, call) ==
    LET out == IF call.threw THEN NoData ELSE call.val
        dec == IF out # NoData THEN decodeFunctionResult(out) ELSE [ok |-> FALSE, val |-> NoAddr]
        smartAccount == IF dec.ok THEN dec.val ELSE NoAddr
        rec2 == [rec EXCEPT !.lastCall = call, !.calls = @ + 1, !.smartAccount = smartAccount]
        rec3 == Logged(rec2, "implementation()")
    IN  IF smartAccount = NoAddr
        THEN Respond(rec2, 500, [error |-> "ReferenceError: keccak256 is not defined"])
        ELSE IF READS = <<>>
        THEN AddressAfterImpl(rec3, rpcEmpty)
        ELSE [rec3 EXCEPT !.pc = "addr_impl", !.lastErr = NoErr, !.attempts = <<>>,
                          !.rpcIdx = IF Len(call.attempts) > 1 /\ Len(READS) > 1 THEN 2 ELSE 1]

AddressAfterPrimary(rec, call) ==
    LET out == IF call.threw THEN NoData ELSE call.val
        dec == IF out # NoData THEN decodeFunctionResult(out) ELSE [ok |-> FALSE, val |-> NoAddr]
        smartAccount == IF dec.ok THEN dec.val ELSE NoAddr
        rec2 == [rec EXCEPT !.lastCall = call, !.calls = @ + 1, !.smartAccount = smartAccount]
        rec3 == Logged(rec2, "implementation()")
    IN  IF smartAccount = NoAddr
        THEN Respond(rec2, 500, [error |-> "ReferenceError: keccak256 is not defined"])
        ELSE IF READS = <<>>
        THEN AddressAfterImpl(rec3, rpcEmpty)
        ELSE [rec3 EXCEPT !.pc = "addr_impl", !.rpcIdx = 1, !.lastErr = NoErr, !.attempts = <<>>]

\* the handler up to its first await
AddressBegin(rec) ==
    IF rec.user = ""
    THEN Respond(rec, 400, [error |-> "missing ?user=<string>"])
    ELSE IF "AA_FACTORY" \notin env
    THEN Respond(rec, 400, [error |-> "AA_FACTORY not set"])
    ELSE IF READS = <<>>
    THEN AddressAfterPrimary(Logged(rec, "getAddress(string)"), rpcEmpty)
    ELSE [Logged(rec, "getAddress(string)") EXCEPT
              !.pc = "addr_primary", !.rpcIdx = 1, !.lastErr = NoErr, !.attempts = <<>>]

\* the calldata of the eth_call the request is waiting on
AddressData(rec) ==
    IF rec.pc = "addr_primary"
    THEN encodeFunctionData("getAddress(string)", <<rec.user>>)
    ELSE encodeFunctionData("implementation()", <<>>)

FirstIdle(r) == req[r].pc = "idle" /\ \A q \in Reqs : q < r => req[q].pc # "idle"

AddressStart(r, user) ==
    /\ FirstIdle(r)
    /\ req' = [req EXCEPT ![r] = AddressBegin(Arrive("address", user, "", "", ""))]
    /\ UNCHANGED <<READS, env, accounts, events, txs, included>>

\* one rpcFetch of the pending rpc() call resolves
AddressRpcFetch(r, kind) ==
    /\ req[r].pc \in {"addr_primary", "addr_impl"}
    /\ LET rec == req[r]
           reply == httpReply(kind, FactoryAddr, AddressData(rec))
           res == rpc(rec, reply)
       IN  req' = [req EXCEPT ![r] =
                IF ~res.done
                THEN [rec EXCEPT !.rpcIdx = @ + 1, !.lastErr = res.err, !.attempts = res.attempts]
                ELSE IF rec.pc = "addr_primary"
                THEN AddressAfterPrimary([rec EXCEPT !.attempts = res.attempts], CallOf(res))
                ELSE AddressAfterImpl([rec EXCEPT !.attempts = res.attempts], CallOf(res))]
    /\ UNCHANGED <<READS, env, accounts, events, txs, included>>

\* ------------------------------------------------- rpcFetch on its own
\* one call rpcFetch(url, "eth_call", [{to, data}, "latest"]) for the
\* getAddress(string) read of `user`, answered by the endpoint with `kind`
RpcFetchCall(r, url, kind, user) ==
    /\ FirstIdle(r)
    /\ req' = [req EXCEPT ![r] =
            LET rec == Arrive("rpcFetch", user, "", "", "")
                reply == httpReply(kind, FactoryAddr,
                                   encodeFunctionData("getAddress(string)", <<user>>))
            IN  [rec EXCEPT !.pc = "done",
                            !.fetch = [called |-> TRUE, url |-> url, reply |-> reply,
                                       out |-> rpcFetch(url, reply)]]]
    /\ UNCHANGED <<READS, env, accounts, events, txs, included>>

\* ------------------------------------------- provider (single endpoint)
NodeError == "Error: could not reach the node"

\* new Contract(target, abi, runner) with an undefined target throws
ContractTargetError == "TypeError: invalid value for Contract target"

\* factory['getAddress(string)'](userId) through the provider: encode,
\* eth_call, decode
callGetAddress(userId) ==
    decodeFunctionResult(
        ethCall(FactoryAddr, encodeFunctionData("getAddress(string)", <<userId>>)).data).val

\* factory.getAddress(userId) on an ethers Contract object: the name resolves
\* to the Contract's own getAddress(), which gives the contract's address
contractGetAddress(contractAddr, userId) == contractAddr

\* await tx.wait() resolves (or throws) once the transaction is in a block
txWaitMutNoAwait(t) == t.state \in {"pending", "ok", "reverted"}

txWait(t) == t.state \in {"ok", "reverted"}

\* ------------------------------------------------ GET /api/aa/debug
\* the individually guarded queries, in the order the handler awaits them
DebugQueries == <<"senderCode", "epNonce", "tokenPrice", "allowance",
                  "senderBal", "paymasterBal", "epCode">>

\* safe(fn, fallback): the query's value, or its fallback when it throws.
\* getBalance of an undefined PAYMASTER throws whatever the node does.
DebugValue(rec, query, ok) ==
    CASE query = "senderCode" -> IF ok THEN getCode(accounts, rec.predicted) ELSE "0x"
      [] query = "epNonce" -> IF ok THEN "0" ELSE "null"
      [] query = "tokenPrice" -> IF ok THEN "price" ELSE "null"
      [] query = "allowance" -> IF ok THEN "0" ELSE "null"
      [] query = "senderBal" -> IF ok THEN "wei" ELSE "0"
      [] query = "paymasterBal" -> IF ok /\ "PAYMASTER" \in env THEN "wei" ELSE "0"
      [] query = "epCode" -> IF ok THEN getCode(accounts, EntryPointAddr) ELSE "0x"

\* the validation, the three Contract objects, and factory.getAddress(userId)
DebugBegin(rec) ==
    IF rec.user = ""
    THEN Respond(rec, 400, [error |-> "missing ?user=<string>"])
    ELSE IF {"AA_FACTORY", "REWARD_TOKEN", "ENTRYPOINT"} \subseteq env
    THEN [rec EXCEPT !.predicted = contractGetAddress(FactoryAddr, rec.user), !.pc = "debug_query"]
    ELSE Respond(rec, 500, [error |-> ContractTargetError])

DebugStart(r, user) ==
    /\ FirstIdle(r)
    /\ req' = [req EXCEPT ![r] = DebugBegin(Arrive("debug", user, "", "", ""))]
    /\ UNCHANGED <<READS, env, accounts, events, txs, included>>

\* res.json({...}) once the seven queries are in
DebugRespond(rec) ==
    LET val == [i \in 1..Len(rec.queries) |-> rec.queries[i].val]
    IN  Respond(rec, 200,
            [userId |-> rec.user, sender |-> rec.predicted, deployed |-> hasCode(val[1]),
             entryPoint |-> EntryPointAddr, entrypointHasCode |-> val[7] # "0x",
             entryPointNonce |-> val[2], token |-> "token", pricePerTokenWei |-> val[3],
             minterAllowance |-> val[4],
             balances |-> [senderWei |-> val[5], paymasterWei |-> val[6]]])

\* the next guarded query settles: answered by the node (ok) or failed
DebugQuery(r, ok) ==
    /\ req[r].pc = "debug_query"
    /\ ok \/ Len(SelectSeq(req[r].queries, LAMBDA q : ~q.ok)) < MaxFail
    /\ req' = [req EXCEPT ![r] = LET rec == req[r] IN
            LET query == DebugQueries[Len(rec.queries) + 1]
                rec2 == [rec EXCEPT !.queries =
                            Append(@, [query |-> query, ok |-> ok,
                                       val |-> DebugValue(rec, query, ok)])]
            IN  IF Len(rec2.queries) = Len(DebugQueries) THEN DebugRespond(rec2) ELSE rec2]
    /\ UNCHANGED <<READS, env, accounts, events, txs, included>>

\* ---------------------------------------------- POST /api/aa/deploy
DeployBeginMutLateCheck(rec) ==
    IF rec.user = ""
    THEN Respond(rec, 400, [error |-> "missing ?user=<string>"])
    ELSE LET owner == IF rec.ownerArg # "" THEN rec.ownerArg ELSE RelayerAddr
         IN  IF "AA_FACTORY" \notin env
             THEN Respond(Logged([rec EXCEPT !.owner = owner], "getAddress"),
                          400, [error |-> "AA_FACTORY not set"])
             ELSE Logged([rec EXCEPT !.owner = owner, !.pc = "deploy_getAddress"], "getAddress")

DeployBegin(rec) ==
    IF rec.user = ""
    THEN Respond(rec, 400, [error |-> "missing ?user=<string>"])
    ELSE LET owner == IF rec.ownerArg # "" THEN rec.ownerArg ELSE RelayerAddr
         IN  IF "AA_FACTORY" \notin env
             THEN Respond([rec EXCEPT !.owner = owner], 400, [error |-> "AA_FACTORY not set"])
             ELSE Logged([rec EXCEPT !.owner = owner, !.pc = "deploy_getAddress"], "getAddress")

DeployStart(r, user, ownerArg) ==
    /\ FirstIdle(r)
    /\ req' = [req EXCEPT ![r] = LET rec == req[r] IN
            DeployBegin(Arrive("deploy", user, ownerArg, "", ""))]
    /\ UNCHANGED <<READS, env, accounts, events, txs, included>>

\* predicted = await factory['getAddress(string)'](userId); then the
\* createAccount transaction is handed to the relayer's provider
DeployGetAddress(r, ok) ==
    /\ req[r].pc = "deploy_getAddress"
    /\ req' = [req EXCEPT ![r] = LET rec == req[r] IN
            IF ok
            THEN Logged([rec EXCEPT !.predicted = callGetAddress(rec.user), !.pc = "deploy_send"],
                        "createAccount")
            ELSE Respond(rec, 500, [error |-> NodeError])]
    /\ UNCHANGED <<READS, env, accounts, events, txs, included>>

\* tx = await factory['createAccount(string,address)'](userId, owner)
DeploySendMutRetry(r, ok) ==
    /\ req[r].pc = "deploy_send"
    /\ req' = [req EXCEPT ![r] = LET rec == req[r] IN
            IF ok THEN Logged([rec EXCEPT !.pc = "deploy_wait"], "wait")
            ELSE IF Len(rec.log) < 3 THEN Logged(rec, "createAccount")
            ELSE Respond(rec, 500, [error |-> NodeError])]
    /\ txs' = IF ok
              THEN [txs EXCEPT ![r] = [state |-> "pending", user |-> req[r].user,
                                       owner |-> req[r].owner, ret |-> NoAddr]]
              ELSE txs
    /\ UNCHANGED <<READS, env, accounts, events, included>>

DeploySend(r, ok) ==
    /\ req[r].pc = "deploy_send"
    /\ req' = [req EXCEPT ![r] = LET rec == req[r] IN
            IF ok THEN Logged([rec EXCEPT !.pc = "deploy_wait"], "wait")
            ELSE Respond(rec, 500, [error |-> NodeError])]
    /\ txs' = IF ok
              THEN [txs EXCEPT ![r] = [state |-> "pending", user |-> req[r].user,
                                       owner |-> req[r].owner, ret |-> NoAddr]]
              ELSE txs
    /\ UNCHANGED <<READS, env, accounts, events, included>>

\* receipt = await tx.wait(); a reverted transaction throws
DeployWait(r) ==
    /\ req[r].pc = "deploy_wait"
    /\ txWait(txs[r])
    /\ req' = [req EXCEPT ![r] = LET rec == req[r] IN
            IF txs[r].state = "reverted"
            THEN Respond(rec, 500, [error |-> "Error: transaction execution reverted"])
            ELSE Logged([rec EXCEPT !.pc = "deploy_getCode"], "getCode")]
    /\ UNCHANGED <<READS, env, accounts, events, txs, included>>

\* deployed = code && code !== '0x'; res.json({...})
DeployAnswerMutThrow(rec, r, code) ==
    IF hasCode(code)
    THEN Respond([rec EXCEPT !.codeAfter = code], 200,
             [userId |-> rec.user, factory |-> FactoryAddr, predicted |-> rec.predicted,
              owner |-> rec.owner, txHash |-> r, deployed |-> TRUE])
    ELSE Respond([rec EXCEPT !.codeAfter = code], 500, [error |-> "Error: account not deployed"])

DeployAnswer(rec, r, code) ==
    Respond([rec EXCEPT !.codeAfter = code], 200,
        [userId |-> rec.user, factory |-> FactoryAddr, predicted |-> rec.predicted,
         owner |-> rec.owner, txHash |-> r, deployed |-> hasCode(code)])

\* code = await provider.getCode(predicted); the response
DeployGetCode(r, ok) ==
    /\ req[r].pc = "deploy_getCode"
    /\ req' = [req EXCEPT ![r] = LET rec == req[r] IN
            IF ok
            THEN DeployAnswer(rec, r, getCode(accounts, rec.predicted))
            ELSE Respond(rec, 500, [error |-> NodeError])]
    /\ UNCHANGED <<READS, env, accounts, events, txs, included>>

\* the same read answered by a node that has not yet seen the block of the
\* transaction: no code at the address
DeployGetCodeStale(r) ==
    /\ req[r].pc = "deploy_getCode"
    /\ req' = [req EXCEPT ![r] = DeployAnswer(req[r], r, "0x")]
    /\ UNCHANGED <<READS, env, accounts, events, txs, included>>

\* ------------------------------------------------ GET /api/aa/create
CreateBegin(rec) ==
    IF rec.user = ""
    THEN Respond(rec, 400, [error |-> "missing ?user="])
    ELSE IF "AA_FACTORY" \notin env
    THEN Respond(rec, 400, [error |-> "AA_FACTORY not set"])
    ELSE Logged([rec EXCEPT !.pc = "create_getAddress"], "getAddress")

CreateStart(r, user) ==
    /\ FirstIdle(r)
    /\ req' = [req EXCEPT ![r] = CreateBegin(Arrive("create", user, "", "", ""))]
    /\ UNCHANGED <<READS, env, accounts, events, txs, included>>

\* sender = await factory["getAddress(string)"](user)
CreateGetAddress(r, ok) ==
    /\ req[r].pc = "create_getAddress"
    /\ req' = [req EXCEPT ![r] = LET rec == req[r] IN
            IF ok
            THEN Logged([rec EXCEPT !.predicted = callGetAddress(rec.user), !.pc = "create_getCode"],
                        "getCode")
            ELSE Respond(rec, 500, [error |-> NodeError])]
    /\ UNCHANGED <<READS, env, accounts, events, txs, included>>

\* code = await provider.getCode(sender); already deployed, or go on to send
CreateGetCodeMutNoCheck(r, ok) ==
    /\ req[r].pc = "create_getCode"
    /\ req' = [req EXCEPT ![r] = LET rec == req[r] IN
            IF ~ok THEN Respond(rec, 500, [error |-> NodeError])
            ELSE Logged([rec EXCEPT !.code = getCode(accounts, rec.predicted),
                                    !.owner = RelayerAddr, !.pc = "create_send"], "createAccount")]
    /\ UNCHANGED <<READS, env, accounts, events, txs, included>>

CreateGetCode(r, ok) ==
    /\ req[r].pc = "create_getCode"
    /\ req' = [req EXCEPT ![r] = LET rec == req[r] IN
            IF ~ok THEN Respond(rec, 500, [error |-> NodeError])
            ELSE LET code == getCode(accounts, rec.predicted)
                 IN  IF hasCode(code)
                     THEN Respond([rec EXCEPT !.code = code], 200,
                              [ok |-> TRUE, user |-> rec.user, smartAccount |-> rec.predicted,
                               alreadyDeployed |-> TRUE])
                     ELSE Logged([rec EXCEPT !.code = code, !.owner = RelayerAddr,
                                           !.pc = "create_send"], "createAccount")]
    /\ UNCHANGED <<READS, env, accounts, events, txs, included>>

\* the guard of the step that sends the transaction: nothing but the
\* request's own position
CreateSendGuardMutLock(r) ==
    /\ req[r].pc = "create_send"
    /\ \A q \in Reqs \ {r} : ~(txs[q].state = "pending" /\ txs[q].user = req[r].user)

CreateSendGuard(r) == req[r].pc = "create_send"

\* tx = await factory.createAccount(user, owner)
CreateSend(r, ok) ==
    /\ CreateSendGuard(r)
    /\ req' = [req EXCEPT ![r] = LET rec == req[r] IN
            IF ok THEN Logged([rec EXCEPT !.pc = "create_wait"], "wait")
            ELSE Respond(rec, 500, [error |-> NodeError])]
    /\ txs' = IF ok
              THEN [txs EXCEPT ![r] = [state |-> "pending", user |-> req[r].user,
                                       owner |-> req[r].owner, ret |-> NoAddr]]
              ELSE txs
    /\ UNCHANGED <<READS, env, accounts, events, included>>

\* await tx.wait()
CreateWait(r) ==
    /\ req[r].pc = "create_wait"
    /\ txWait(txs[r])
    /\ req' = [req EXCEPT ![r] = LET rec == req[r] IN
            IF txs[r].state = "reverted"
            THEN Respond(rec, 500, [error |-> "Error: transaction execution reverted"])
            ELSE Logged([rec EXCEPT !.pc = "create_getCodeAfter"], "getCodeAfter")]
    /\ UNCHANGED <<READS, env, accounts, events, txs, included>>

\* deployed = codeAfter && codeAfter !== "0x"; res.json({...})
CreateAnswer(rec, r, code) ==
    Respond([rec EXCEPT !.codeAfter = code], 200,
        [ok |-> TRUE, user |-> rec.user, smartAccount |-> rec.predicted,
         deployed |-> hasCode(code), txHash |-> r])

\* codeAfter = await provider.getCode(sender); the response
CreateGetCodeAfter(r, ok) ==
    /\ req[r].pc = "create_getCodeAfter"
    /\ req' = [req EXCEPT ![r] = LET rec == req[r] IN
            IF ok
            THEN CreateAnswer(rec, r, getCode(accounts, rec.predicted))
            ELSE Respond(rec, 500, [error |-> NodeError])]
    /\ UNCHANGED <<READS, env, accounts, events, txs, included>>

\* the same read answered by a node that has not yet seen the block
CreateGetCodeAfterStale(r) ==
    /\ req[r].pc = "create_getCodeAfter"
    /\ req' = [req EXCEPT ![r] = CreateAnswer(req[r], r, "0x")]
    /\ UNCHANGED <<READS, env, accounts, events, txs, included>>

\* -------------------------------------- GET /api/aa/gasless-mint/send
\* what the bundler at BUNDLER_URL answers to eth_sendUserOperation: a
\* userOpHash, a JSON-RPC error object, or a body with neither
BundlerReplies == {"result", "error", "neither"}

\* the validation, then getSenderAndInit up to provider.getCode(sender)
SendBeginMutNoToCheck(rec) ==
    IF rec.user = ""
    THEN Respond(rec, 400, [error |-> "missing ?user="])
    ELSE IF ~(EnvNames \subseteq env)
    THEN Respond(rec, 400, [error |-> "missing env vars"])
    ELSE Logged([rec EXCEPT !.predicted = contractGetAddress(FactoryAddr, rec.user),
                            !.pc = "send_getCode"], "getCode")

SendBegin(rec) ==
    IF rec.user = ""
    THEN Respond(rec, 400, [error |-> "missing ?user="])
    ELSE IF rec.to # "0xrecipient"
    THEN Respond(rec, 400, [error |-> "bad ?to="])
    ELSE IF ~(EnvNames \subseteq env)
    THEN Respond(rec, 400, [error |-> "missing env vars"])
    ELSE Logged([rec EXCEPT !.predicted = contractGetAddress(FactoryAddr, rec.user),
                            !.pc = "send_getCode"], "getCode")

SendStart(r, user, to, stub) ==
    /\ FirstIdle(r)
    /\ req' = [req EXCEPT ![r] = LET rec == req[r] IN
            SendBegin(Arrive("send", user, "", to, stub))]
    /\ UNCHANGED <<READS, env, accounts, events, txs, included>>

\* getSenderAndInit after provider.getCode(sender).  Deployed: it returns, and
\* the handler stops at `new ethers.Interface` (ethers is not imported).  Not
\* deployed: encoding createAccount with [userId] alone throws into the catch,
\* which stops at `ethers.id`.  A failed read enters the same catch.
SendGetCode(r, ok) ==
    /\ req[r].pc = "send_getCode"
    /\ req' = [req EXCEPT ![r] = LET rec == req[r] IN
            LET code == IF ok THEN getCode(accounts, rec.predicted) ELSE ""
            IN  Respond([rec EXCEPT !.code = code], 500,
                    [error |-> "ReferenceError: ethers is not defined"])]
    /\ UNCHANGED <<READS, env, accounts, events, txs, included>>

\* -------------------------------------------- GET /api/4337/preflight
\* what happens to the handler's own POST to BUNDLER_URL, made by fetch with
\* no abort signal: a JSON-RPC result or error, a body that is not JSON, a
\* refused connection, or no answer at all
PreflightReplies == BundlerReplies \cup {"notjson", "refused", "silent"}

PreflightBegin(rec) ==
    IF "ENTRYPOINT" \notin env
    THEN Respond(rec, 400, [error |-> "ENTRYPOINT not set"])
    ELSE IF "BUNDLER_URL" \notin env
    THEN Respond(rec, 400, [error |-> "BUNDLER_URL not set"])
    ELSE Logged([rec EXCEPT !.pc = "preflight_getCode"], "getCode")

PreflightStart(r, stub) ==
    /\ FirstIdle(r)
    /\ req' = [req EXCEPT ![r] = PreflightBegin(Arrive("preflight", "", "", "", stub))]
    /\ UNCHANGED <<READS, env, accounts, events, txs, included>>

\* code = await provider.getCode(entrypoint); then the POST of
\* web3_clientVersion leaves for the bundler
PreflightGetCode(r, ok) ==
    /\ req[r].pc = "preflight_getCode"
    /\ req' = [req EXCEPT ![r] = LET rec == req[r] IN
            IF ok
            THEN Logged([rec EXCEPT !.code = getCode(accounts, EntryPointAddr),
                                    !.pc = "preflight_fetch",
                                    !.posts = Append(@, [url |-> BundlerUrl,
                                                         method |-> "web3_clientVersion"])],
                        "fetch")
            ELSE Respond(rec, 500, [error |-> NodeError])]
    /\ UNCHANGED <<READS, env, accounts, events, txs, included>>

\* await fetch(bundlerUrl, ...) and await r.json() settle: possible only
\* once the bundler answers or the connection fails
PreflightFetch(r) ==
    /\ req[r].pc = "preflight_fetch"
    /\ req[r].stub # "silent"
    /\ req' = [req EXCEPT ![r] = LET rec == req[r] IN
            IF rec.stub = "refused"
            THEN Respond(rec, 500, [error |-> "TypeError: fetch failed"])
            ELSE IF rec.stub = "notjson"
            THEN Respond(rec, 500, [error |-> "SyntaxError: Unexpected token < in JSON"])
            ELSE Respond(rec, 200,
                     [entrypoint |-> EntryPointAddr, entrypointHasCode |-> hasCode(rec.code),
                      bundlerUrl |-> BundlerUrl,
                      bundlerClientVersion |-> IF rec.stub = "result" THEN "bundler/1.0"
                                               ELSE "null"])]
    /\ UNCHANGED <<READS, env, accounts, events, txs, included>>

\* ---------------------------------------------------------- the chain
\* a pending createAccount transaction is included in a block
Mine(t) ==
    /\ txs[t].state = "pending"
    /\ LET res == createAccount(accounts, txs[t].user, txs[t].owner)
       IN  /\ accounts' = res.accts
           /\ events' = events \o res.emitted
           /\ txs' = [txs EXCEPT ![t].state = IF res.ok THEN "ok" ELSE "reverted",
                                 ![t].ret = res.ret]
    /\ included' = Append(included, t)
    /\ UNCHANGED <<READS, env, req>>

\* the users whose account some other party deploys
DeployedElsewhere == {"alice"}

\* a createAccount transaction sent to the factory by anyone else (the
\* bundler running an operation's factoryData, a deployment script)
ExternalCreateAccount(user, owner) ==
    /\ LET res == createAccount(accounts, user, owner)
       IN  /\ res.ok
           /\ res.accts # accounts
           /\ accounts' = res.accts
           /\ events' = events \o res.emitted
    /\ UNCHANGED <<READS, env, txs, included, req>>

\* ------------------------------------------------------ specification
InitChain ==
    /\ accounts = <<>>
    /\ events = <<>>
    /\ txs = [r \in Reqs |-> NoTx]
    /\ included = <<>>
    /\ req = [r \in Reqs |-> Idle]

\* The two deployment endpoints and the chain underneath them.
Init ==
    /\ READS = <<"rpc1", "rpc2">>
    /\ env \in {EnvNames, EnvNames \ {"AA_FACTORY"}}
    /\ InitChain

Next ==
    \/ \E r \in Reqs, user \in Users \cup {""}, ownerArg \in OwnerArgs : DeployStart(r, user, ownerArg)
    \/ \E r \in Reqs, ok \in BOOLEAN : DeployGetAddress(r, ok)
    \/ \E r \in Reqs, ok \in BOOLEAN : DeploySend(r, ok)
    \/ \E r \in Reqs : DeployWait(r)
    \/ \E r \in Reqs, ok \in BOOLEAN : DeployGetCode(r, ok)
    \/ \E r \in Reqs, user \in Users \cup {""} : CreateStart(r, user)
    \/ \E r \in Reqs, ok \in BOOLEAN : CreateGetAddress(r, ok)
    \/ \E r \in Reqs, ok \in BOOLEAN : CreateGetCode(r, ok)
    \/ \E r \in Reqs, ok \in BOOLEAN : CreateSend(r, ok)
    \/ \E r \in Reqs : CreateWait(r)
    \/ \E r \in Reqs, ok \in BOOLEAN : CreateGetCodeAfter(r, ok)
    \/ \E t \in Reqs : Mine(t)

Spec == Init /\ [][Next]_vars

\* The address endpoint over every setting of the read endpoints, next to
\* the create endpoint that deploys the accounts it resolves.
InitRead ==
    /\ READS \in ReadsChoices
    /\ env = EnvNames
    /\ InitChain

NextRead ==
    \/ \E r \in Reqs, user \in Users \cup {""} : AddressStart(r, user)
    \/ \E r \in Reqs, kind \in ReplyKinds : AddressRpcFetch(r, kind)
    \/ \E user \in DeployedElsewhere : ExternalCreateAccount(user, RelayerAddr)

SpecRead == InitRead /\ [][NextRead]_vars

\* The gasless-mint endpoint, for accounts deployed or not.
InitSend ==
    /\ READS = <<"rpc1", "rpc2">>
    /\ env \in {EnvNames} \cup {EnvNames \ {n} : n \in EnvNames}
    /\ InitChain

NextSend ==
    \/ \E r \in Reqs, user \in Users \cup {""}, to \in {"0xrecipient", "bad"},
          stub \in BundlerReplies : SendStart(r, user, to, stub)
    \/ \E r \in Reqs, ok \in BOOLEAN : SendGetCode(r, ok)
    \/ \E user \in DeployedElsewhere : ExternalCreateAccount(user, RelayerAddr)

SpecSend == InitSend /\ [][NextSend]_vars

\* The JSON-RPC client alone, over every kind of answer.
InitFetch ==
    /\ READS = <<"rpc1", "rpc2">>
    /\ env = EnvNames
    /\ InitChain

NextFetch ==
    \E r \in Reqs, url \in {"rpc1", "rpc2"}, kind \in ReplyKinds \cup OddReplyKinds,
       user \in Users : RpcFetchCall(r, url, kind, user)

SpecFetch == InitFetch /\ [][NextFetch]_vars

\* The preflight endpoint.  The event loop runs every continuation whose
\* awaited promise has settled: weak fairness of the handler's steps.
InitPreflight ==
    /\ READS = <<"rpc1", "rpc2">>
    /\ env \in {EnvNames, EnvNames \ {"ENTRYPOINT"}, EnvNames \ {"BUNDLER_URL"}}
    /\ InitChain

NextPreflight ==
    \/ \E r \in Reqs, stub \in PreflightReplies : PreflightStart(r, stub)
    \/ \E r \in Reqs, ok \in BOOLEAN : PreflightGetCode(r, ok)
    \/ \E r \in Reqs : PreflightFetch(r)

SpecPreflight ==
    /\ InitPreflight /\ [][NextPreflight]_vars
    /\ WF_vars(\E r \in Reqs, ok \in BOOLEAN : PreflightGetCode(r, ok))
    /\ WF_vars(\E r \in Reqs : PreflightFetch(r))

\* The five AA endpoints served by one process, a single read endpoint.
InitApi ==
    /\ READS = <<"rpc1">>
    /\ env \in {EnvNames, EnvNames \ {"AA_FACTORY"}, EnvNames \ {"PAYMASTER"},
                EnvNames \ {"REWARD_TOKEN"}}
    /\ InitChain

NextApi ==
    \/ \E r \in ApiReqs, user \in {"alice", ""} : AddressStart(r, user)
    \/ \E r \in ApiReqs, kind \in ReplyKinds \cup {"short"} : AddressRpcFetch(r, kind)
    \/ \E r \in ApiReqs, user \in {"alice", ""} : DebugStart(r, user)
    \/ \E r \in ApiReqs, ok \in BOOLEAN : DebugQuery(r, ok)
    \/ \E r \in ApiReqs, user \in {"alice", ""}, ownerArg \in {"", ZeroAddress} :
           DeployStart(r, user, ownerArg)
    \/ \E r \in ApiReqs, ok \in BOOLEAN : DeployGetAddress(r, ok)
    \/ \E r \in ApiReqs, ok \in BOOLEAN : DeploySend(r, ok)
    \/ \E r \in ApiReqs : DeployWait(r)
    \/ \E r \in ApiReqs, ok \in BOOLEAN : DeployGetCode(r, ok)
    \/ \E r \in ApiReqs, user \in {"alice", ""} : CreateStart(r, user)
    \/ \E r \in ApiReqs, ok \in BOOLEAN : CreateGetAddress(r, ok)
    \/ \E r \in ApiReqs, ok \in BOOLEAN : CreateGetCode(r, ok)
    \/ \E r \in ApiReqs, ok \in BOOLEAN : CreateSend(r, ok)
    \/ \E r \in ApiReqs : CreateWait(r)
    \/ \E r \in ApiReqs, ok \in BOOLEAN : CreateGetCodeAfter(r, ok)
    \/ \E r \in ApiReqs, user \in {"alice", ""}, to \in {"0xrecipient", "bad"} :
           SendStart(r, user, to, "error")
    \/ \E r \in ApiReqs, ok \in BOOLEAN : SendGetCode(r, ok)
    \/ \E t \in ApiReqs : Mine(t)

SpecApi == InitApi /\ [][NextApi]_vars

\* The deployment endpoints read through a node that may lag behind the
\* block of the transaction just confirmed.
InitLag ==
    /\ READS = <<"rpc1", "rpc2">>
    /\ env = EnvNames
    /\ InitChain

NextLag ==
    \/ \E r \in Reqs, ownerArg \in {"", "0xowner"} : DeployStart(r, "alice", ownerArg)
    \/ \E r \in Reqs, ok \in BOOLEAN : DeployGetAddress(r, ok)
    \/ \E r \in Reqs, ok \in BOOLEAN : DeploySend(r, ok)
    \/ \E r \in Reqs : DeployWait(r)
    \/ \E r \in Reqs, ok \in BOOLEAN : DeployGetCode(r, ok)
    \/ \E r \in Reqs : DeployGetCodeStale(r)
    \/ \E r \in Reqs : CreateStart(r, "alice")
    \/ \E r \in Reqs, ok \in BOOLEAN : CreateGetAddress(r, ok)
    \/ \E r \in Reqs, ok \in BOOLEAN : CreateGetCode(r, ok)
    \/ \E r \in Reqs, ok \in BOOLEAN : CreateSend(r, ok)
    \/ \E r \in Reqs : CreateWait(r)
    \/ \E r \in Reqs, ok \in BOOLEAN : CreateGetCodeAfter(r, ok)
    \/ \E r \in Reqs : CreateGetCodeAfterStale(r)
    \/ \E t \in Reqs : Mine(t)

SpecLag == InitLag /\ [][NextLag]_vars

\* ------------------------------------------------------- RewardToken
\* the accounts that call the token, and the recipients of a mint
TokenCallers == {RelayerAddr, "0xminter"}
Recipients == {"0xrecipient"}

\* the token's storage after construction: no supply, the given owner and
\* minter allowances
NewToken(initialOwner, allowances) ==
    [owner |-> initialOwner, minterAllowance |-> allowances,
     totalSupply |-> 0, balanceOf |-> [h \in Recipients |-> 0]]

Reverted(tok, why) == [ok |-> FALSE, err |-> why, tok |-> tok, emitted |-> <<>>]

\* setMinterAllowance(minter, allowance) external onlyOwner
setMinterAllowance(tok, sender, minter, allowance) ==
    IF sender # tok.owner
    THEN Reverted(tok, "OwnableUnauthorizedAccount")
    ELSE [ok |-> TRUE, err |-> "",
          tok |-> [tok EXCEPT !.minterAllowance[minter] = allowance],
          emitted |-> <<[name |-> "MinterAllowanceUpdated", minter |-> minter,
                         allowance |-> allowance]>>]

\* ERC20._mint(to, amount): checked additions
mint(tok, to, amount) ==
    [tok EXCEPT !.totalSupply = @ + amount, !.balanceOf[to] = @ + amount]

\* mintTo(to, amount) external
mintToMutNoAllowanceCheck(tok, sender, to, amount) ==
    LET a == tok.minterAllowance[sender]
    IN  IF to = ZeroAddress THEN Reverted(tok, "bad to")
        ELSE IF ~(amount > 0) THEN Reverted(tok, "amount>0")
        ELSE IF ~(a > 0) THEN Reverted(tok, "not minter")
        ELSE IF tok.totalSupply + amount > MaxUint THEN Reverted(tok, "Panic(0x11)")
        ELSE [ok |-> TRUE, err |-> "",
              tok |-> mint(IF a # MaxUint
                           THEN [tok EXCEPT !.minterAllowance[sender] = (a - amount) % (MaxUint + 1)]
                           ELSE tok, to, amount),
              emitted |-> <<[name |-> "TokensMinted", minter |-> sender, to |-> to,
                             amount |-> amount]>>]

mintTo(tok, sender, to, amount) ==
    LET a == tok.minterAllowance[sender]
    IN  IF to = ZeroAddress THEN Reverted(tok, "bad to")
        ELSE IF ~(amount > 0) THEN Reverted(tok, "amount>0")
        ELSE IF ~(a > 0) THEN Reverted(tok, "not minter")
        ELSE IF a # MaxUint /\ ~(a >= amount) THEN Reverted(tok, "allowance")
        ELSE IF tok.totalSupply + amount > MaxUint THEN Reverted(tok, "Panic(0x11)")
        ELSE [ok |-> TRUE, err |-> "",
              tok |-> mint(IF a # MaxUint
                           THEN [tok EXCEPT !.minterAllowance[sender] = (a - amount) % (MaxUint + 1)]
                           ELSE tok, to, amount),
              emitted |-> <<[name |-> "TokensMinted", minter |-> sender, to |-> to,
                             amount |-> amount]>>]

\* what the token's events add up to, per minter: the allowance last granted
\* (MinterAllowanceUpdated) and the amount minted since (TokensMinted)
Tally(ledger, emitted) ==
    IF emitted = <<>> THEN ledger
    ELSE LET e == emitted[1]
         IN  IF e.name = "MinterAllowanceUpdated"
             THEN [ledger EXCEPT !.granted[e.minter] = e.allowance, !.minted[e.minter] = 0]
             ELSE [ledger EXCEPT !.minted[e.minter] = @ + e.amount]

\* a transaction to the token is included: its effect, its events, and the
\* call itself as the latest included transaction
TokenCall(call, res) ==
    /\ accounts' = [accounts EXCEPT ![TokenAddr] = res.tok]
    /\ events' = Tally(events, res.emitted)
    /\ included' = <<[call EXCEPT !.ok = res.ok, !.err = res.err]>>

CallSetMinterAllowance(sender, minter, allowance) ==
    /\ TokenCall([fn |-> "setMinterAllowance", sender |-> sender, to |-> minter,
                  amount |-> allowance, ok |-> FALSE, err |-> ""],
                 setMinterAllowance(accounts[TokenAddr], sender, minter, allowance))
    /\ UNCHANGED <<READS, env, txs, req>>

CallMintTo(sender, to, amount) ==
    /\ TokenCall([fn |-> "mintTo", sender |-> sender, to |-> to,
                  amount |-> amount, ok |-> FALSE, err |-> ""],
                 mintTo(accounts[TokenAddr], sender, to, amount))
    /\ UNCHANGED <<READS, env, txs, req>>

\* ---------------------------------------------- MinimalAccount.execute
\* to.call{value: value}(data) made by the account `from`: the token's mintTo
\* (not payable), empty calldata (the token's receive()), a selector the
\* token does not have (it has no fallback function), or a call to an address
\* without code, which succeeds.  No action funds an account, so a call that
\* carries value fails.
call(chain, from, to, value, data) ==
    LET failed == [ok |-> FALSE, chain |-> chain, emitted |-> <<>>]
    IN  IF value > 0 THEN failed
        ELSE IF to # TokenAddr THEN [ok |-> TRUE, chain |-> chain, emitted |-> <<>>]
        ELSE IF Len(data) = 3 /\ data[1] = "mintTo(address,uint256)"
        THEN LET res == mintTo(chain[TokenAddr], from, data[2], data[3])
             IN  IF res.ok
                 THEN [ok |-> TRUE, chain |-> [chain EXCEPT ![TokenAddr] = res.tok],
                       emitted |-> res.emitted]
                 ELSE failed
        ELSE IF data = <<>> THEN [ok |-> TRUE, chain |-> chain, emitted |-> <<>>]
        ELSE failed

\* execute(to, value, data) external onlyOwner, called by sender on account
executeMutNoOwnerCheck(chain, account, sender, to, value, data) ==
    LET inner == call(chain, account, to, value, data)
    IN  IF ~inner.ok
        THEN [ok |-> FALSE, err |-> "exec failed", chain |-> chain, emitted |-> <<>>]
        ELSE [ok |-> TRUE, err |-> "", chain |-> inner.chain, emitted |-> inner.emitted]

execute(chain, account, sender, to, value, data) ==
    IF sender # chain[account].owner
    THEN [ok |-> FALSE, err |-> "not owner", chain |-> chain, emitted |-> <<>>]
    ELSE LET inner == call(chain, account, to, value, data)
         IN  IF ~inner.ok
             THEN [ok |-> FALSE, err |-> "exec failed", chain |-> chain, emitted |-> <<>>]
             ELSE [ok |-> TRUE, err |-> "", chain |-> inner.chain, emitted |-> inner.emitted]

\* the entry point as msg.sender (owners and callers are plain strings), and
\* the targets of the inner call: the token, or an address without code
EntryPointSender == EntryPointAddr[1]
ExecuteTargets == {TokenAddr, <<"nocode">>}

\* the calldata a caller may pass to execute
ExecuteData ==
    {<<>>, <<"unknown()">>}
        \cup {encodeFunctionData("mintTo(address,uint256)", <<to, amount>>) :
                  to \in Recipients \cup {ZeroAddress}, amount \in {0, 1}}

\* a transaction calling execute on alice's account is included
CallExecute(sender, to, value, data) ==
    /\ LET res == execute(accounts, AccountOf("alice"), sender, to, value, data)
       IN  /\ accounts' = res.chain
           /\ events' = Tally(events, res.emitted)
           /\ included' = <<[fn |-> "execute", sender |-> sender, to |-> to, value |-> value,
                             data |-> data, ok |-> res.ok, err |-> res.err]>>
    /\ UNCHANGED <<READS, env, txs, req>>

\* alice's account, owned by the relayer or by the entry point, and the token
\* in which the account holds no, a finite, or the unlimited allowance
InitAccount ==
    /\ READS = <<"rpc1">>
    /\ env = EnvNames
    /\ \E owner \in {RelayerAddr, EntryPointSender}, a \in {0, 1, MaxUint} :
           LET minters == {AccountOf("alice")}
               allowances == [m \in minters |-> a]
           IN  /\ accounts = (TokenAddr :> NewToken("0xowner", allowances))
                                @@ (AccountOf("alice") :> initialize(FreshClone, owner).acct)
               /\ events = [granted |-> allowances, minted |-> [m \in minters |-> 0]]
    /\ included = <<>>
    /\ txs = [r \in Reqs |-> NoTx]
    /\ req = [r \in Reqs |-> Idle]

NextAccount ==
    \E sender \in {RelayerAddr, EntryPointSender, "0xowner"}, to \in ExecuteTargets,
       value \in {0, 1}, data \in ExecuteData :
        CallExecute(sender, to, value, data)

SpecAccount == InitAccount /\ [][NextAccount]_vars

\* -------------------------------------------------- GET /api/token/mint
\* the two transactions a mint request may send
NoTokenTx == [state |-> "none", fn |-> "", sender |-> "", to |-> "", amount |-> 0]
NoTokenTxs == [allow |-> NoTokenTx, mint |-> NoTokenTx]

\* the checks; then current = await token.minterAllowance(relayerAddr) is
\* issued.  amount stands for parseUnits(amountStr, 18), on the token's
\* scaled-down width
TokenMintBegin(rec) ==
    IF "REWARD_TOKEN" \notin env
    THEN Respond(rec, 400, [error |-> "REWARD_TOKEN not set"])
    ELSE IF rec.to # "0xrecipient"
    THEN Respond(rec, 400, [error |-> "bad wallet"])
    ELSE Logged([rec EXCEPT !.pc = "mint_allowance"], "minterAllowance")

TokenMintStart(r, wallet, amount) ==
    /\ FirstIdle(r)
    /\ req' = [req EXCEPT ![r] =
            TokenMintBegin([Arrive("mint", "", "", wallet, "") EXCEPT !.amount = amount])]
    /\ UNCHANGED <<READS, env, accounts, events, txs, included>>

\* the allowance read returns: if (current !== MAX) setMinterAllowance is
\* next, else mintTo
TokenMintAllowance(r, ok) ==
    /\ req[r].pc = "mint_allowance"
    /\ req' = [req EXCEPT ![r] = LET rec == req[r] IN
            IF ~ok THEN Respond(rec, 500, [error |-> NodeError])
            ELSE LET current == accounts[TokenAddr].minterAllowance[RelayerAddr]
                 IN  IF current # MaxUint
                     THEN Logged([rec EXCEPT !.allowance = current, !.pc = "mint_setSend"],
                                 "setMinterAllowance")
                     ELSE Logged([rec EXCEPT !.allowance = current, !.pc = "mint_send"],
                                 "mintTo")]
    /\ UNCHANGED <<READS, env, accounts, events, txs, included>>

\* txA = await token.setMinterAllowance(relayerAddr, MAX)
TokenMintSetSend(r, ok) ==
    /\ req[r].pc = "mint_setSend"
    /\ IF ok
       THEN /\ txs' = [txs EXCEPT ![r].allow =
                        [state |-> "pending", fn |-> "setMinterAllowance",
                         sender |-> RelayerAddr, to |-> RelayerAddr, amount |-> MaxUint]]
            /\ req' = [req EXCEPT ![r].pc = "mint_setWait"]
       ELSE /\ req' = [req EXCEPT ![r] = Respond(req[r], 500, [error |-> NodeError])]
            /\ UNCHANGED txs
    /\ UNCHANGED <<READS, env, accounts, events, included>>

\* await txA.wait(); then tx = token.mintTo(...) is next
TokenMintSetWaitMutNoAwait(r) ==
    /\ req[r].pc = "mint_setWait"
    /\ txWaitMutNoAwait(txs[r].allow)
    /\ req' = [req EXCEPT ![r] = LET rec == req[r] IN
            IF txs[r].allow.state = "reverted"
            THEN Respond(rec, 500, [error |-> "Error: transaction execution reverted"])
            ELSE Logged([rec EXCEPT !.pc = "mint_send"], "mintTo")]
    /\ UNCHANGED <<READS, env, accounts, events, txs, included>>

TokenMintSetWait(r) ==
    /\ req[r].pc = "mint_setWait"
    /\ txWait(txs[r].allow)
    /\ req' = [req EXCEPT ![r] = LET rec == req[r] IN
            IF txs[r].allow.state = "reverted"
            THEN Respond(rec, 500, [error |-> "Error: transaction execution reverted"])
            ELSE Logged([rec EXCEPT !.pc = "mint_send"], "mintTo")]
    /\ UNCHANGED <<READS, env, accounts, events, txs, included>>

\* tx = await token.mintTo(to, parseUnits(amountStr, 18))
TokenMintSend(r, ok) ==
    /\ req[r].pc = "mint_send"
    /\ IF ok
       THEN /\ txs' = [txs EXCEPT ![r].mint =
                        [state |-> "pending", fn |-> "mintTo", sender |-> RelayerAddr,
                         to |-> req[r].to, amount |-> req[r].amount]]
            /\ req' = [req EXCEPT ![r].pc = "mint_wait"]
       ELSE /\ req' = [req EXCEPT ![r] = Respond(req[r], 500, [error |-> NodeError])]
            /\ UNCHANGED txs
    /\ UNCHANGED <<READS, env, accounts, events, included>>

\* await tx.wait(); res.json({ status, to, amount, txHash })
TokenMintWait(r) ==
    /\ req[r].pc = "mint_wait"
    /\ txWait(txs[r].mint)
    /\ req' = [req EXCEPT ![r] = LET rec == req[r] IN
            IF txs[r].mint.state = "reverted"
            THEN Respond(rec, 500, [error |-> "Error: transaction execution reverted"])
            ELSE Respond(rec, 200, [status |-> "minted", to |-> rec.to,
                                    amount |-> rec.amount, txHash |-> r])]
    /\ UNCHANGED <<READS, env, accounts, events, txs, included>>

\* a pending transaction of a mint request is included in a block
TokenMine(r, slot) ==
    /\ txs[r][slot].state = "pending"
    /\ LET t == txs[r][slot]
           tok == accounts[TokenAddr]
           res == IF t.fn = "mintTo" THEN mintTo(tok, t.sender, t.to, t.amount)
                  ELSE setMinterAllowance(tok, t.sender, t.to, t.amount)
       IN  /\ TokenCall([fn |-> t.fn, sender |-> t.sender, to |-> t.to,
                         amount |-> t.amount, ok |-> FALSE, err |-> ""], res)
           /\ txs' = [txs EXCEPT ![r][slot].state = IF res.ok THEN "ok" ELSE "reverted"]
    /\ UNCHANGED <<READS, env, req>>

\* The mint endpoint and the token underneath it; the relayer is the
\* token's owner or not, and starts with no, a finite, or the unlimited
\* allowance.
InitMint ==
    /\ READS = <<"rpc1">>
    /\ env \in {EnvNames, EnvNames \ {"REWARD_TOKEN"}}
    /\ \E initialOwner \in {RelayerAddr, "0xowner"}, a \in {0, 1, MaxUint} :
           LET allowances == [m \in TokenCallers |-> IF m = RelayerAddr THEN a ELSE 0]
           IN  /\ accounts = (TokenAddr :> NewToken(initialOwner, allowances))
               /\ events = [granted |-> allowances, minted |-> [m \in TokenCallers |-> 0]]
    /\ included = <<>>
    /\ txs = [r \in Reqs |-> NoTokenTxs]
    /\ req = [r \in Reqs |-> Idle]

NextMint ==
    \/ \E r \in Reqs, wallet \in {"0xrecipient", "bad"}, amount \in {0, 1} :
           TokenMintStart(r, wallet, amount)
    \/ \E r \in Reqs, ok \in BOOLEAN : TokenMintAllowance(r, ok)
    \/ \E r \in Reqs, ok \in BOOLEAN : TokenMintSetSend(r, ok)
    \/ \E r \in Reqs : TokenMintSetWait(r)
    \/ \E r \in Reqs, ok \in BOOLEAN : TokenMintSend(r, ok)
    \/ \E r \in Reqs : TokenMintWait(r)
    \/ \E r \in Reqs, slot \in {"allow", "mint"} : TokenMine(r, slot)

SpecMint == InitMint /\ [][NextMint]_vars

\* The token on its own: any caller, any arguments.
InitToken ==
    /\ READS = <<"rpc1">>
    /\ env = EnvNames
    /\ \E allowances \in [TokenCallers -> {0, MaxUint}] :
           /\ accounts = (TokenAddr :> NewToken("0xowner", allowances))
           /\ events = [granted |-> allowances, minted |-> [m \in TokenCallers |-> 0]]
    /\ included = <<>>
    /\ txs = [r \in Reqs |-> NoTx]
    /\ req = [r \in Reqs |-> Idle]

NextToken ==
    \/ \E sender \in {"0xowner", RelayerAddr}, minter \in TokenCallers, allowance \in 0..MaxUint :
           CallSetMinterAllowance(sender, minter, allowance)
    \/ \E sender \in TokenCallers, to \in Recipients \cup {ZeroAddress}, amount \in 0..MaxUint :
           CallMintTo(sender, to, amount)

SpecToken == InitToken /\ [][NextToken]_vars

\* ===================================================== the properties
Range(f) == {f[i] : i \in DOMAIN f}

Done(r) == req[r].pc = "done"

\* C1: two sequential POST /api/aa/deploy calls for one userId both report
\* deployed: true, and the call made when the account already has code
\* submits no createAccount transaction and returns no txHash.
C1_DeployIdempotent ==
    \A r \in Reqs :
        (req[r].kind = "deploy" /\ Done(r) /\ req[r].status = 200) =>
            /\ req[r].body.deployed
            /\ req[r].codeAtStart =>
                   (txs[r].state = "none" /\ "txHash" \notin DOMAIN req[r].body)

\* a gasless-mint request with valid parameters and environment whose code
\* lookup was answered
SendAnswered(r) ==
    /\ req[r].kind = "send" /\ Done(r)
    /\ req[r].user # "" /\ req[r].to = "0xrecipient" /\ EnvNames \subseteq env
    /\ req[r].code # ""

Returned(r) == req[r].calls > 0 /\ ~req[r].lastCall.threw
Threw(r) == req[r].calls > 0 /\ req[r].lastCall.threw

\* C3: rpc() tries the endpoints in the configured order and returns the
\* result of the first one that succeeds, attempting none after it; when only
\* the last of N endpoints succeeds it makes exactly N attempts.
C3_FirstSuccess ==
    \A r \in Reqs :
        /\ Returned(r) =>
              LET c == req[r].lastCall
                  n == Len(c.attempts)
              IN  /\ n \in 1..Len(READS)
                  /\ \A i \in 1..n : c.attempts[i].url = READS[i]
                  /\ \A i \in 1..(n - 1) : ~c.attempts[i].ok
                  /\ c.attempts[n].ok
                  /\ c.val = c.attempts[n].val
        /\ req[r].pc \in {"addr_primary", "addr_impl"} =>
              /\ req[r].rpcIdx = Len(req[r].attempts) + 1
              /\ \A i \in 1..Len(req[r].attempts) : ~req[r].attempts[i].ok

\* only the last of the two endpoints succeeded: two attempts, its result
C3_Witness ==
    \E r \in Reqs :
        /\ Returned(r)
        /\ Len(READS) = 2
        /\ Len(req[r].lastCall.attempts) = 2
        /\ ~req[r].lastCall.attempts[1].ok
        /\ req[r].lastCall.val = encodeResult(AccountOf(req[r].user))

\* C4: when every configured endpoint fails, rpc() fails with exactly the
\* error of the last endpoint of the list.
C4_LastError ==
    \A r \in Reqs :
        (Threw(r) /\ READS # <<>>) =>
            LET c == req[r].lastCall
            IN  /\ Len(c.attempts) = Len(READS)
                /\ \A i \in 1..Len(READS) : ~c.attempts[i].ok /\ c.attempts[i].url = READS[i]
                /\ c.err = c.attempts[Len(READS)].err
                /\ c.err.url = READS[Len(READS)]

\* both endpoints failed, each in its own way
C4_Witness ==
    \E r \in Reqs :
        /\ Threw(r)
        /\ Len(req[r].lastCall.attempts) = 2
        /\ req[r].lastCall.attempts[1].err.msg # req[r].lastCall.attempts[2].err.msg

\* a successful GET /api/aa/address response
Resolved(r) == req[r].kind = "address" /\ Done(r) /\ req[r].status = 200

C6_BundlerRejected ==
    \A r \in Reqs :
        (SendAnswered(r) /\ req[r].stub = "error") =>
            /\ req[r].status = 400
            /\ {"details", "sentUserOp"} \subseteq DOMAIN req[r].body
            /\ DOMAIN req[r].body \cap {"ok", "userOpHash"} = {}


IsPrefix(a, b) == Len(a) <= Len(b) /\ \A i \in 1..Len(a) : a[i] = b[i]

\* the network steps of each flow, in the order the handler issues them
DeploySteps == <<"getAddress", "createAccount", "wait", "getCode">>
CreateSteps == <<"getAddress", "getCode", "createAccount", "wait", "getCodeAfter">>

C8_NoMutualExclusion ==
    \A r \in Reqs :
        /\ req[r].pc = "create_send" => ENABLED CreateSend(r, TRUE)
        /\ req[r].pc = "deploy_send" => ENABLED DeploySend(r, TRUE)

\* two create requests for one userId both saw no code and both sent
C8_Witness ==
    \E r, q \in Reqs :
        /\ r # q
        /\ req[r].kind = "create" /\ req[q].kind = "create"
        /\ req[r].user = req[q].user
        /\ req[r].code = "0x" /\ req[q].code = "0x"
        /\ txs[r].state # "none" /\ txs[q].state # "none"

\* the included createAccount transactions of a user, in block order
IncludedFor(u) == SelectSeq(included, LAMBDA t : txs[t].user = u)
SucceededFor(u) == SelectSeq(included, LAMBDA t : txs[t].user = u /\ txs[t].state = "ok")
EventsFor(u) == SelectSeq(events, LAMBDA e : e.account = AccountOf(u))

\* C9 as stated: once any createAccount transaction for a userId is
\* included, the account is cloned and initialized exactly once,
\* AccountDeployed is emitted exactly once, every call returns the same
\* address and the owner is the owner argument of the first included one.
C9_FirstIncludedOwns ==
    \A u \in Users :
        IncludedFor(u) # <<>> =>
            /\ AccountOf(u) \in DOMAIN accounts
            /\ Len(EventsFor(u)) = 1
            /\ \A i \in 1..Len(IncludedFor(u)) : txs[IncludedFor(u)[i]].ret = AccountOf(u)
            /\ accounts[AccountOf(u)].owner = txs[IncludedFor(u)[1]].owner

\* C9: after any sequence of included createAccount transactions for a
\* userId the account is cloned and initialized at most once, and exactly
\* once as soon as one of them succeeded; AccountDeployed is emitted once per
\* deployed account; every successful call returns the same address; the
\* owner is the owner argument of the first transaction that succeeded; a
\* transaction reverts only with the zero owner on an account without code,
\* and changes nothing.
C9_FirstSuccessOwns ==
    \A u \in Users :
        /\ AccountOf(u) \in DOMAIN accounts <=> SucceededFor(u) # <<>>
        /\ Len(EventsFor(u)) = IF AccountOf(u) \in DOMAIN accounts THEN 1 ELSE 0
        /\ \A i \in 1..Len(SucceededFor(u)) : txs[SucceededFor(u)[i]].ret = AccountOf(u)
        /\ AccountOf(u) \in DOMAIN accounts =>
               /\ accounts[AccountOf(u)].initialized
               /\ accounts[AccountOf(u)].owner = txs[SucceededFor(u)[1]].owner
               /\ accounts[AccountOf(u)].owner # ZeroAddress
               /\ EventsFor(u)[1].owner = accounts[AccountOf(u)].owner
               /\ EventsFor(u)[1].salt = keccak256(u)
        /\ \A i \in 1..Len(IncludedFor(u)) :
               txs[IncludedFor(u)[i]].state = "reverted" =>
                   /\ txs[IncludedFor(u)[i]].owner = ZeroAddress
                   /\ \A j \in 1..i : txs[IncludedFor(u)[j]].state = "reverted"

\* two transactions with different owners were included for one userId
C9_Witness ==
    \E u \in Users :
        /\ Len(SucceededFor(u)) = 2
        /\ txs[SucceededFor(u)[1]].owner # txs[SucceededFor(u)[2]].owner

\* C10: once an address has code it has code in every later state.
C10_CodeStays == [][\A a \in DOMAIN accounts : a \in DOMAIN accounts']_vars

\* an account with code that a later createAccount transaction ran against
C10_Witness ==
    \E u \in Users :
        /\ AccountOf(u) \in DOMAIN accounts
        /\ Len(SucceededFor(u)) = 2

\* what ethers reports for return data that does not decode
DecodeErrorText == "Error: could not decode result data"

\* C13: a decoding failure is surfaced to the caller as such and starts
\* neither a retry nor the alternate-signature branch: a GET /api/aa/address
\* request one of whose reads returned data that does not decode is answered
\* with that decoding error.
C13_DecodeSurfaced ==
    \A r \in Reqs :
        ( /\ req[r].kind = "address" /\ Done(r) /\ req[r].calls >= 1
          /\ ~req[r].lastCall.threw /\ req[r].lastCall.val # NoData
          /\ ~decodeFunctionResult(req[r].lastCall.val).ok ) =>
            /\ req[r].status = 500
            /\ req[r].body.error = DecodeErrorText
            /\ "getAddress(bytes32)" \notin Range(req[r].log)

\* C14: every outbound HTTP call of a handler is bounded by a timeout of its
\* own, so every request that arrived is answered in the end, also when the
\* remote endpoint never answers.
C14_EventuallyAnswered ==
    \A r \in Reqs : (req[r].pc # "idle") ~> Done(r)

\* the eth_sendUserOperation calls a request has posted
Submissions(r) == SelectSeq(req[r].posts, LAMBDA p : p.method = "eth_sendUserOperation")

Count(log, step) == Len(SelectSeq(log, LAMBDA e : e = step))

\* C16: a deployment request hands at most one createAccount transaction to
\* the relayer's provider, whether the send succeeds or fails and however the
\* request ends, and it never goes through rpc() and the read endpoints.
C16_WritesOnce ==
    \A r \in Reqs :
        req[r].kind \in {"deploy", "create"} =>
            /\ Count(req[r].log, "createAccount") <= 1
            /\ txs[r].state # "none" => Count(req[r].log, "createAccount") = 1
            /\ (Done(r) /\ req[r].status = 200 /\ "txHash" \in DOMAIN req[r].body) =>
                   (req[r].body.txHash = r /\ txs[r].state = "ok")
            /\ req[r].calls = 0 /\ req[r].attempts = <<>> /\ req[r].rpcIdx = 0

\* one request whose send failed and was answered 500 with nothing sent,
\* another whose single transaction went through
C16_Witness ==
    \E r, q \in Reqs :
        /\ req[r].kind = "deploy" /\ Done(r) /\ req[r].status = 500
        /\ req[r].log = <<"getAddress", "createAccount">> /\ txs[r].state = "none"
        /\ req[q].kind \in {"deploy", "create"} /\ Done(q) /\ req[q].status = 200
        /\ txs[q].state = "ok"

\* a GET /api/aa/address request that issued its getAddress(string) read
PrimaryAnswered(r) ==
    /\ req[r].kind = "address" /\ Done(r)
    /\ "getAddress(string)" \in Range(req[r].log)

\* ... and got no decodable address from it
PrimaryFailed(r) ==
    /\ PrimaryAnswered(r)
    /\ req[r].calls = 1
    /\ req[r].lastCall.threw \/ ~decodeFunctionResult(req[r].lastCall.val).ok

\* C11: in GET /api/aa/address the getAddress(bytes32) read is issued exactly
\* when the getAddress(string) read failed or gave no decodable address; a
\* primary read that succeeded is the address returned.
C11_TwoStepFallback ==
    \A r \in Reqs :
        PrimaryAnswered(r) =>
            /\ "getAddress(bytes32)" \in Range(req[r].log) <=> PrimaryFailed(r)
            /\ ~PrimaryFailed(r) =>
                   (req[r].status = 200 /\ req[r].body.smartAccount = AccountOf(req[r].user))

\* C12: when the getAddress(string) read fails and the factory answers no
\* getAddress(bytes32) read either, the response is the error that names the
\* factory address and the two variants tried.
C12_BothVariantsFailed ==
    \A r \in Reqs :
        ( /\ PrimaryFailed(r)
          /\ ~ethCall(FactoryAddr,
                      encodeFunctionData("getAddress(bytes32)", <<keccak256(req[r].user)>>)).ok ) =>
            /\ req[r].status = 500
            /\ "factory" \in DOMAIN req[r].body
            /\ req[r].body.factory = FactoryAddr
            /\ req[r].body.error =
                   "Factory reverted for both signatures (string/bytes32). Check ABI or AA_FACTORY."

\* the positions at which a request waits inside rpc()
RpcPcs == {"addr_primary", "addr_impl"}

\* C17: no read changes the endpoint list, and whatever failed before, every
\* rpc() call starts at the first configured endpoint with nothing tried and
\* goes through the list in order, through all of it when every endpoint fails.
C17_EndpointsStateless ==
    [][ /\ READS' = READS
        /\ \A r \in Reqs :
              /\ (req'[r].pc \in RpcPcs /\ req'[r].pc # req[r].pc) =>
                     (req'[r].rpcIdx = 1 /\ req'[r].attempts = <<>> /\ req'[r].lastErr = NoErr)
              /\ (req'[r].calls = req[r].calls + 1 /\ READS # <<>>) =>
                     LET c == req'[r].lastCall
                     IN  /\ \A i \in 1..Len(c.attempts) : c.attempts[i].url = READS[i]
                         /\ c.threw => Len(c.attempts) = Len(READS)
      ]_vars

\* the first endpoint failed in the call before, and the next call is about
\* to start with it again
C17_Witness ==
    \E r \in Reqs :
        /\ req[r].pc = "addr_impl"
        /\ Len(req[r].lastCall.attempts) = 2
        /\ ~req[r].lastCall.attempts[1].ok /\ req[r].lastCall.attempts[1].url = READS[1]
        /\ req[r].rpcIdx = 1 /\ req[r].attempts = <<>>

\* the AA endpoints, and the response fields that report a success
AaKinds == {"address", "debug", "deploy", "create", "send"}
SuccessFields == {"ok", "userOpHash", "txHash", "smartAccount", "deployed",
                  "sender", "predicted", "userId", "user"}

\* missing user, or a recipient that does not start with 0x
InvalidInput(r) ==
    req[r].user = "" \/ (req[r].kind = "send" /\ req[r].to # "0xrecipient")

\* the environment values a handler reads
Needs(kind) ==
    CASE kind = "send" -> EnvNames
      [] kind = "debug" -> {"AA_FACTORY", "REWARD_TOKEN", "ENTRYPOINT", "PAYMASTER"}
      [] kind = "preflight" -> {"ENTRYPOINT", "BUNDLER_URL"}
      [] OTHER -> {"AA_FACTORY"}

LastStep(r) == req[r].log[Len(req[r].log)]

\* a finished request one of whose unguarded downstream calls failed: a read
\* through the provider or the read endpoints, the send of the transaction,
\* or the transaction itself
DownstreamFailed(r) ==
    /\ Done(r)
    /\ \/ PrimaryFailed(r)
       \/ /\ req[r].kind \in {"deploy", "create"} /\ req[r].log # <<>>
          /\ \/ txs[r].state = "reverted"
             \/ LastStep(r) = "getAddress" /\ req[r].predicted = NoAddr
             \/ LastStep(r) = "createAccount" /\ txs[r].state = "none"
             \/ LastStep(r) = "getCode" /\ req[r].code = "" /\ req[r].codeAfter = ""
             \/ LastStep(r) = "getCodeAfter" /\ req[r].codeAfter = ""
       \/ req[r].kind = "send" /\ req[r].log # <<>> /\ req[r].code = ""

\* C19: a request to an AA endpoint that fails is answered with a body that
\* has an error field and no success field, and a success body has no error
\* field: 400 when the user is missing or the recipient does not start with
\* 0x (and otherwise only for a missing environment value), 500 when a
\* downstream call failed.
C19_FailuresAreErrors ==
    \A r \in Reqs :
        (req[r].kind \in AaKinds /\ Done(r)) =>
            /\ req[r].status \in {200, 400, 500}
            /\ req[r].status # 200 =>
                   ("error" \in DOMAIN req[r].body /\ DOMAIN req[r].body \cap SuccessFields = {})
            /\ req[r].status = 200 => "error" \notin DOMAIN req[r].body
            /\ InvalidInput(r) => req[r].status = 400
            /\ req[r].status = 400 => (InvalidInput(r) \/ ~(Needs(req[r].kind) \subseteq env))
            /\ DownstreamFailed(r) => req[r].status = 500

\* a deployment whose transaction reverted, answered 500
C19_Witness ==
    \E r \in Reqs :
        /\ req[r].kind = "deploy" /\ Done(r)
        /\ txs[r].state = "reverted"
        /\ req[r].status = 500 /\ DOMAIN req[r].body = {"error"}

\* C20: a valid request to an endpoint one of whose environment values is
\* missing is answered 400, never 500 and never with a success.
C20_MissingEnvIs400 ==
    \A r \in Reqs :
        ( /\ req[r].kind \in AaKinds /\ Done(r)
          /\ ~InvalidInput(r)
          /\ ~(Needs(req[r].kind) \subseteq env) ) =>
            req[r].status = 400

\* C18: rpcFetch makes exactly one POST; it returns the body's result exactly
\* when a response arrived whose body parses to an object with a result
\* field (a null result included); otherwise, once a response arrived, it
\* throws the server's error message, or the HTTP status when there is no
\* message; a body that is not JSON counts as {} and throws the status.
C18_RpcFetchContract ==
    \A r \in Reqs :
        req[r].fetch.called =>
            LET f == req[r].fetch
                hasResult == f.reply.arrived /\ f.reply.json /\ "result" \in DOMAIN f.reply.obj
                hasMessage == /\ f.reply.arrived /\ f.reply.json
                              /\ "error" \in DOMAIN f.reply.obj
                              /\ "message" \in DOMAIN f.reply.obj.error
            IN  /\ f.out.posts = <<f.url>>
                /\ f.out.ok <=> hasResult
                /\ hasResult => f.out.val = f.reply.obj.result
                /\ (f.reply.arrived /\ ~hasResult) =>
                       /\ f.out.err.url = f.url
                       /\ f.out.err.msg = IF hasMessage THEN f.reply.obj.error.message
                                          ELSE rpcErrorText(f.reply.status)
                /\ (f.reply.arrived /\ ~f.reply.json) =>
                       (~f.out.ok /\ f.out.err.msg = "rpc error 502")

\* a null result returned, and a gateway's error page thrown as its status
C18_Witness ==
    \E r, q \in Reqs :
        /\ req[r].fetch.called /\ req[q].fetch.called
        /\ req[r].fetch.reply.arrived /\ req[r].fetch.reply.json
        /\ req[r].fetch.out.ok /\ req[r].fetch.out.val = NoData
        /\ ~req[q].fetch.reply.json /\ req[q].fetch.reply.arrived
        /\ req[q].fetch.out.err.msg = "rpc error 502"

\* C21: a deployment request whose createAccount transaction was confirmed
\* and whose re-query of the code found none does not fail: it is answered
\* 200 with the txHash and deployed = false.
C21_SoftFailure ==
    \A r \in Reqs :
        ( /\ req[r].kind \in {"deploy", "create"} /\ Done(r)
          /\ txs[r].state = "ok" /\ req[r].codeAfter = "0x" ) =>
            /\ req[r].status = 200
            /\ "error" \notin DOMAIN req[r].body
            /\ req[r].body.txHash = r
            /\ req[r].body.deployed = FALSE

\* a deploy and a create request, both confirmed, both answered by a node
\* that showed no code although the chain has it
C21_Witness ==
    \E r, q \in Reqs :
        /\ req[r].kind = "deploy" /\ req[q].kind = "create"
        /\ Done(r) /\ Done(q)
        /\ txs[r].state = "ok" /\ txs[q].state = "ok"
        /\ req[r].codeAfter = "0x" /\ req[q].codeAfter = "0x"
        /\ AccountOf("alice") \in DOMAIN accounts

\* an address request whose implementation() read threw or gave nothing
\* decodable
ImplFailed(r) ==
    /\ req[r].kind = "address" /\ Done(r)
    /\ req[r].calls = 2
    /\ req[r].lastCall.threw \/ ~decodeFunctionResult(req[r].lastCall.val).ok

\* C24 (as stated): when the implementation() lookup of GET /api/aa/address
\* fails, the request still succeeds with the resolved smartAccount and the
\* response has no implementation field.
C24_ImplOmitted ==
    \A r \in Reqs :
        ImplFailed(r) =>
            /\ req[r].status = 200
            /\ req[r].body.smartAccount = getAddress(req[r].user)
            /\ "implementation" \notin DOMAIN req[r].body

\* C24 (amended): ... and the response carries implementation: null.
C24_ImplNull ==
    \A r \in Reqs :
        ImplFailed(r) =>
            /\ req[r].status = 200
            /\ req[r].body.smartAccount = getAddress(req[r].user)
            /\ "implementation" \in DOMAIN req[r].body
            /\ req[r].body.implementation = NoAddr

\* an address request answered 200 after its implementation() read failed on
\* every endpoint
C24_Witness ==
    \E r \in Reqs :
        /\ ImplFailed(r) /\ req[r].lastCall.threw
        /\ Len(req[r].lastCall.attempts) = Len(READS) /\ READS # <<>>
        /\ req[r].status = 200

\* C25: GET /api/aa/create looks at the code before writing. A request that
\* saw code answers alreadyDeployed: true with the predicted smartAccount and
\* submits nothing; a transaction is submitted only by a request that saw no
\* code; a request that submitted and completed has left code behind, so a
\* call made after it submits nothing: two sequential calls submit at most
\* one transaction.
C25_CreateIdempotent ==
    \A r \in Reqs :
        req[r].kind = "create" =>
            /\ txs[r].state # "none" => req[r].code = "0x"
            /\ hasCode(req[r].code) =>
                   /\ Done(r) /\ req[r].status = 200
                   /\ req[r].body.alreadyDeployed
                   /\ req[r].body.smartAccount = getAddress(req[r].user)
                   /\ "txHash" \notin DOMAIN req[r].body
                   /\ txs[r].state = "none"
            /\ (Done(r) /\ txs[r].state # "none") =>
                   hasCode(getCode(accounts, getAddress(req[r].user)))
            /\ (req[r].codeAtStart /\ req[r].code # "") => hasCode(req[r].code)

\* two create calls for one userId, the second made after the first one's
\* transaction was confirmed: the second is answered alreadyDeployed
C25_Witness ==
    \E r, q \in Reqs :
        /\ req[r].kind = "create" /\ req[q].kind = "create"
        /\ req[r].user = req[q].user
        /\ Done(q) /\ txs[q].state = "ok" /\ req[q].status = 200 /\ req[q].body.deployed
        /\ req[r].codeAtStart /\ Done(r) /\ req[r].status = 200
        /\ "alreadyDeployed" \in DOMAIN req[r].body
        /\ txs[r].state = "none"

\* a request that has reached nothing outside the process: no read through
\* the provider or the read endpoints, no transaction, no bundler call
NoOutwardEffect(r) ==
    /\ req[r].log = <<>> /\ req[r].queries = <<>>
    /\ req[r].calls = 0 /\ req[r].attempts = <<>> /\ req[r].rpcIdx = 0
    /\ req[r].predicted = NoAddr /\ req[r].smartAccount = NoAddr
    /\ req[r].code = "" /\ req[r].codeAfter = ""
    /\ txs[r].state = "none"
    /\ req[r].posts = <<>> /\ ~req[r].userOp.built

\* C26: a request that fails input or configuration validation is answered
\* 400 at once, having issued no read, no transaction and no bundler call.
C26_ValidationFirst ==
    \A r \in Reqs :
        /\ (req[r].kind \in AaKinds /\ Done(r) /\ req[r].status = 400) => NoOutwardEffect(r)
        /\ ( /\ req[r].kind \in {"send", "deploy", "create"}
             /\ InvalidInput(r) \/ ~(Needs(req[r].kind) \subseteq env) ) =>
               (Done(r) /\ req[r].status = 400 /\ NoOutwardEffect(r))

\* a deploy and a gasless-mint request with good parameters, refused for a
\* missing environment value
C26_Witness ==
    \E r \in Reqs :
        /\ req[r].kind \in {"deploy", "send"} /\ Done(r) /\ req[r].status = 400
        /\ ~InvalidInput(r)

\* a debug request that got as far as resolving the sender and obtained no
\* address
SenderUnresolved(r) ==
    /\ {"AA_FACTORY", "REWARD_TOKEN", "ENTRYPOINT"} \subseteq env
    /\ req[r].predicted = NoAddr

\* the fallback documented for a guarded query of GET /api/aa/debug
Fallback(query) ==
    IF query \in {"senderCode", "epCode"} THEN "0x"
    ELSE IF query \in {"senderBal", "paymasterBal"} THEN "0" ELSE "null"

\* C29: GET /api/aa/debug fails (500) only when resolving the sender fails;
\* a guarded query that fails yields its fallback and the request is still
\* answered 200.
C29_DebugGuarded ==
    \A r \in Reqs :
        (req[r].kind = "debug" /\ Done(r) /\ req[r].user # "") =>
            /\ req[r].status = 500 => SenderUnresolved(r)
            /\ req[r].queries # <<>> =>
                   /\ req[r].status = 200
                   /\ \A i \in 1..Len(req[r].queries) :
                          ~req[r].queries[i].ok =>
                              req[r].queries[i].val = Fallback(req[r].queries[i].query)

\* C30: every endpoint that derives the account address of a userId obtains
\* the address the factory's getAddress(string) predicts for it.
C30_OneDerivation ==
    \A r \in Reqs :
        req[r].kind \in AaKinds =>
            /\ req[r].predicted # NoAddr => req[r].predicted = getAddress(req[r].user)
            /\ req[r].smartAccount # NoAddr => req[r].smartAccount = getAddress(req[r].user)

\* Interface.decodeFunctionData(signature, data): the arguments, when the
\* data starts with the function's selector
decodeFunctionData(sig, data) ==
    IF Len(data) > 0 /\ data[1] = sig
    THEN [ok |-> TRUE, args |-> Tail(data)]
    ELSE [ok |-> FALSE, args |-> <<>>]

AllowanceAccounted ==
    \A m \in TokenCallers :
        LET a == accounts[TokenAddr].minterAllowance[m]
        IN  IF events.granted[m] = MaxUint
            THEN a = MaxUint
            ELSE a + events.minted[m] = events.granted[m]

\* the step of a mintTo call: the listed causes revert it and leave storage
\* and events as they were; a mint that went through moved the amount and
\* took it off a finite allowance only
MintToStep ==
    LET c == included'[1]
        tok == accounts[TokenAddr]
        after == accounts'[TokenAddr]
        a == tok.minterAllowance[c.sender]
    IN  c.fn = "mintTo" =>
            /\ ( \/ a = 0 \/ c.amount = 0 \/ c.to = ZeroAddress
                 \/ (a # MaxUint /\ a < c.amount) ) => ~c.ok
            /\ ~c.ok => (after = tok /\ events' = events)
            /\ c.ok =>
                   /\ after.minterAllowance[c.sender] = IF a = MaxUint THEN MaxUint ELSE a - c.amount
                   /\ \A m \in TokenCallers \ {c.sender} :
                          after.minterAllowance[m] = tok.minterAllowance[m]
                   /\ after.balanceOf[c.to] = tok.balanceOf[c.to] + c.amount
                   /\ after.totalSupply = tok.totalSupply + c.amount

\* C27: RewardToken.mintTo reverts with no state change for a caller with
\* zero allowance, a zero amount, a zero recipient, or a finite allowance
\* smaller than the amount; a successful mint takes exactly the amount off a
\* finite allowance, so what a minter mints between two setMinterAllowance
\* calls never exceeds the allowance granted; an allowance of
\* type(uint256).max is never decremented.
C27_MintTo == []AllowanceAccounted /\ [][MintToStep]_vars

\* a minter granted a finite allowance has used all of it and its next mint
\* was reverted, while an unlimited minter has minted too
C27_Witness ==
    /\ included # <<>> /\ included[1].fn = "mintTo" /\ included[1].err = "allowance"
    /\ \E m \in TokenCallers :
           /\ events.granted[m] \notin {0, MaxUint} /\ events.minted[m] > 0
           /\ accounts[TokenAddr].minterAllowance[m] < events.granted[m]
    /\ \E m \in TokenCallers : events.granted[m] = MaxUint /\ events.minted[m] > 0

\* C28: a mint request issues setMinterAllowance(relayer, MAX) exactly when
\* the allowance it read differs from MAX, issues mintTo only once that
\* transaction is confirmed (or was not needed), and after a successful
\* call the relayer's allowance is MAX.
C28_EnsureThenMint ==
    \A r \in Reqs :
        req[r].kind = "mint" =>
            /\ Len(req[r].log) >= 2 =>
                   ("setMinterAllowance" \in Range(req[r].log) <=> req[r].allowance # MaxUint)
            /\ txs[r].allow.state # "none" =>
                   /\ req[r].log[2] = "setMinterAllowance"
                   /\ txs[r].allow.to = RelayerAddr /\ txs[r].allow.amount = MaxUint
            /\ "mintTo" \in Range(req[r].log) =>
                   IF req[r].allowance = MaxUint
                   THEN txs[r].allow.state = "none"
                   ELSE txs[r].allow.state = "ok"
            /\ txs[r].mint.state # "none" => LastStep(r) = "mintTo"
            /\ (Done(r) /\ req[r].status = 200) =>
                   /\ txs[r].mint.state = "ok"
                   /\ accounts[TokenAddr].minterAllowance[RelayerAddr] = MaxUint

\* two successful mint calls: the first found a finite allowance and raised
\* it, the second found MAX and sent only the mint
C28_Witness ==
    \E r, q \in Reqs :
        /\ req[r].kind = "mint" /\ req[q].kind = "mint"
        /\ Done(r) /\ req[r].status = 200 /\ Done(q) /\ req[q].status = 200
        /\ req[r].allowance = 1 /\ txs[r].allow.state = "ok"
        /\ req[q].allowance = MaxUint /\ txs[q].allow.state = "none"

\* C35: with no read endpoint configured, rpc() makes no network attempt and
\* throws the error "all RPCs failed".
C35_NoEndpoints ==
    \A r \in Reqs :
        (READS = <<>> /\ req[r].kind = "address" /\ req[r].calls > 0) =>
            /\ req[r].lastCall.threw
            /\ req[r].lastCall.attempts = <<>>
            /\ req[r].lastCall.err.msg = "all RPCs failed"
            /\ req[r].attempts = <<>> /\ req[r].rpcIdx = 0
            /\ req[r].posts = <<>>

\* an address request whose read went through rpc() with no endpoint set
C35_Witness ==
    \E r \in Reqs :
        /\ READS = <<>> /\ req[r].kind = "address" /\ Done(r)
        /\ req[r].log = <<"getAddress(string)">> /\ req[r].calls = 1
        /\ req[r].lastCall.threw /\ req[r].status = 500

\* C32: the owner reported by a successful POST /api/aa/deploy is the owner
\* stored in the account at the predicted address, whatever deploy requests
\* with other owner parameters came before.
C32_ReportedOwner ==
    \A r \in Reqs :
        (req[r].kind = "deploy" /\ Done(r) /\ req[r].status = 200 /\ req[r].body.deployed) =>
            /\ req[r].body.predicted \in DOMAIN accounts
            /\ accounts[req[r].body.predicted].owner = req[r].body.owner

\* C31: for a user whose account has no code, the operation built by a valid
\* gasless-mint request carries as factoryData a createAccount(userId, owner)
\* call for that user, and running it on the factory puts code at exactly
\* the operation's sender.
C31_FactoryData ==
    \A r \in Reqs :
        (SendAnswered(r) /\ ~req[r].codeAtStart /\ AccountOf(req[r].user) \notin DOMAIN accounts) =>
            /\ req[r].userOp.built
            /\ LET d == decodeFunctionData("createAccount(string,address)", req[r].userOp.factoryData)
               IN  /\ d.ok /\ Len(d.args) = 2
                   /\ d.args[1] = req[r].user
                   /\ LET res == createAccount(accounts, d.args[1], d.args[2])
                      IN  /\ res.ok
                          /\ res.ret = req[r].userOp.sender
                          /\ req[r].userOp.sender \in DOMAIN res.accts

ExecuteStep ==
    LET c == included'[1]
        account == AccountOf("alice")
        inner == call(accounts, account, c.to, c.value, c.data)
    IN  c.fn = "execute" =>
            /\ c.sender # accounts[account].owner => ~c.ok
            /\ ~inner.ok => ~c.ok
            /\ ~c.ok => (accounts' = accounts /\ events' = events)
            /\ c.ok => (c.sender = accounts[account].owner /\ accounts' = inner.chain)
            /\ accounts'[account] = accounts[account]

====
